---- MODULE Spec2Model ----
(***************************************************************************)
(* A model of apple_monitor.py: the AppleMonitorSelenium polling loop.     *)
(*                                                                         *)
(* Python values are modelled as records.  A dict is a record (a function  *)
(* on its keys), None and non-dict JSON values are records tagged by the   *)
(* field "py", so that structural equality (== / != in the code) is the    *)
(* equality of the model.                                                  *)
(***************************************************************************)
EXTENDS Integers, Sequences, FiniteSets, TLC

VARIABLES
    pc,                 \* the place start_monitoring/main has reached
    driver,             \* self.driver: None or the session held in the slot
    live,               \* number of browser sessions created and not yet quit
    last_response,      \* self.last_response
    data,               \* run_check's local: what check_availability returned
    availability_info,  \* run_check's local: what parse_availability returned
    sends,              \* calls of send_email made in the current cycle
    outcome,            \* how check_availability ended in the current cycle
    before,             \* last_response as it was when the current cycle began
    prev,               \* the parse result of the previous cycle (None if it had none)
    exit_cause,         \* why the while loop was left ("none" while it runs)
    send_result         \* what send_email returned in the current cycle

vars == <<pc, driver, live, last_response, data, availability_info, sends,
          outcome, before, prev, exit_cause, send_result>>

(***************************************************************************)
(* Bounds of the model.                                                    *)
(***************************************************************************)
\* longest stores list of a response handed to parse_availability on its own
MaxStores == 2
\* longest stores list of a response the running monitor receives (it asks for
\* one store, with searchNearby=false)
MaxLoopStores == 1
\* the wall clock reads 0..MaxClock
MaxClock == 1

(***************************************************************************)
(* Python values.                                                          *)
(***************************************************************************)
None == [py |-> "None"]

\* a JSON value that is not an object (a string where a dict is expected)
NonDict == [py |-> "str"]

\* {}
EmptyDict == [k \in {} |-> None]

\* the WebDriver object stored in self.driver
Session == [py |-> "WebDriver"]

\* the marker of an exception leaving a pure computation
Raised == [py |-> "raised"]

IsDict(v) == "py" \notin DOMAIN v

\* d.get(k, default) on a dict d
Get(d, k, default) == IF k \in DOMAIN d THEN d[k] ELSE default

\* datetime.now().isoformat(): local wall-clock time, which is not monotonic
\* (it can be stepped back), so any reading is possible at any call
Clock == 0 .. MaxClock

(***************************************************************************)
(* The responses of the fulfillment endpoint.                              *)
(***************************************************************************)
\* the two stores and the two parts the source names (lines 45-46, 282-283)
StoreNumbers == {"R232", "R354"}

StoreName(n) == IF n = "R232" THEN "Natick" ELSE "Nashua"

PartNumbers == {"MFXG4LL/A", "MG7K4LL/A"}

\* the part the monitor asks for (PRODUCT_ID default)
product_id == "MFXG4LL/A"

PickupDisplays == {"available", "unavailable"}

SeqUpTo(S, n) == UNION {[1 .. k -> S] : k \in 0 .. n}

\* the JSON document with the stores list at body.content.pickupMessage.stores
Wrap(stores) == [body |-> [content |-> [pickupMessage |-> [stores |-> stores]]]]

\* one part entry: with its pickupDisplay, or without the key
PartInfos == {[pickupDisplay |-> d] : d \in PickupDisplays} \cup {EmptyDict}

PartsMaps == UNION {[D -> PartInfos] : D \in SUBSET PartNumbers}

\* stores as the endpoint can describe them: named or not, any parts mapping,
\* a store that is not an object, a store with a part entry that is not an object
RawStores ==
    {[storeName |-> StoreName("R232"), storeNumber |-> "R232", partsAvailability |-> m] :
        m \in PartsMaps}
    \cup {[storeNumber |-> "R354", partsAvailability |-> m] : m \in PartsMaps}
    \cup {[storeName |-> StoreName("R354")]}
    \cup {NonDict}
    \cup {[storeNumber |-> "R354", partsAvailability |-> [p \in {product_id} |-> NonDict]]}

\* every response parse_availability is exercised on
ParseResponses ==
    {Wrap(s) : s \in SeqUpTo(RawStores, MaxStores)}
    \cup {EmptyDict, [body |-> NonDict], [body |-> [content |-> NonDict]],
          [body |-> [content |-> [pickupMessage |-> NonDict]]],
          [body |-> [content |-> EmptyDict]]}

\* the stores the running monitor sees: each carries the requested part
LoopStores ==
    {[storeName |-> StoreName(n), storeNumber |-> n,
      partsAvailability |-> [p \in {product_id} |-> [pickupDisplay |-> d]]] :
        n \in StoreNumbers, d \in PickupDisplays}

\* the dicts execute_async_script hands back without an 'error' key
LoopResponses ==
    {Wrap(s) : s \in SeqUpTo(LoopStores, MaxLoopStores)}
    \cup {EmptyDict, [body |-> NonDict]}

(***************************************************************************)
(* parse_availability (lines 139-171).                                     *)
(***************************************************************************)
\* line 142: data.get('body', {}).get('content', {}).get('pickupMessage', {}).get('stores', [])
stores_of(d) ==
    IF ~IsDict(d) THEN Raised
    ELSE LET body == Get(d, "body", EmptyDict) IN
         IF ~IsDict(body) THEN Raised
         ELSE LET content == Get(body, "content", EmptyDict) IN
              IF ~IsDict(content) THEN Raised
              ELSE LET pickupMessage == Get(content, "pickupMessage", EmptyDict) IN
                   IF ~IsDict(pickupMessage) THEN Raised
                   ELSE [list |-> Get(pickupMessage, "stores", <<>>)]

\* lines 151-160: the store_info of one store, or Raised when a .get fails
store_info_of(store) ==
    IF ~IsDict(store) THEN Raised
    ELSE LET parts == Get(store, "partsAvailability", EmptyDict) IN
         IF ~IsDict(parts) THEN Raised
         ELSE IF \E p \in DOMAIN parts : ~IsDict(parts[p]) THEN Raised
         ELSE [storeName |-> Get(store, "storeName", "Unknown"),
               storeNumber |-> Get(store, "storeNumber", "Unknown"),
               partsAvailability |->
                   [p \in DOMAIN parts |-> Get(parts[p], "pickupDisplay", "Unknown")]]

\* line 162: some part of this store_info is 'available'
has_available_part(store_info) ==
    \E p \in DOMAIN store_info.partsAvailability :
        store_info.partsAvailability[p] = "available"

RECURSIVE parse_stores_last(_, _, _)
\* a parse loop that lets each store overwrite the flag
parse_stores_last(stores, i, info) ==
    IF i > Len(stores) THEN info
    ELSE LET store_info == store_info_of(stores[i]) IN
         IF store_info = Raised THEN Raised
         ELSE parse_stores_last(stores, i + 1,
                  [info EXCEPT !.stores = Append(@, store_info),
                               !.has_availability = has_available_part(store_info)])

RECURSIVE parse_stores(_, _, _)
\* lines 150-165: the loop over the stores from the i-th on, info being
\* availability_info as built so far
parse_stores(stores, i, info) ==
    IF i > Len(stores) THEN info
    ELSE LET store_info == store_info_of(stores[i]) IN
         IF store_info = Raised THEN Raised
         ELSE parse_stores(stores, i + 1,
                  [info EXCEPT !.stores = Append(@, store_info),
                               !.has_availability = @ \/ has_available_part(store_info)])

\* lines 139-171, now being what datetime.now() reads
parse_availability(d, now) ==
    LET stores == stores_of(d)
        error == [error |-> "AttributeError", timestamp |-> now]
    IN  IF stores = Raised THEN error
        ELSE LET info == parse_stores(stores.list, 1,
                             [timestamp |-> now, stores |-> <<>>,
                              has_availability |-> FALSE])
             IN  IF info = Raised THEN error ELSE info

\* availability_info.get('has_availability') as a truth value (line 234)
get_has_availability(info) ==
    IF "has_availability" \in DOMAIN info THEN info.has_availability ELSE FALSE

\* `not data` (line 224): None and the empty dict are falsy
Falsy(d) == d = None \/ d = EmptyDict

(***************************************************************************)
(* The monitor: __init__, run_check, start_monitoring, cleanup, main.      *)
(***************************************************************************)
\* lines 41-51, and the locals of a cycle that has not begun
Init ==
    /\ pc = "run_check"
    /\ driver = None
    /\ live = 0
    /\ last_response = None
    /\ data = None
    /\ availability_info = None
    /\ sends = 0
    /\ outcome = "pending"
    /\ before = None
    /\ prev = None
    /\ exit_cause = "none"
    /\ send_result = "none"

\* the places inside the while loop of start_monitoring (lines 257-261)
LoopPcs == {"run_check", "navigate", "fetch", "check_done", "parse", "compare",
            "send_email", "cleanup", "sleep"}

\* the exceptions check_availability turns into None (lines 129-137)
CheckErrors == {"timeout", "webdriver_error", "unexpected_error"}

\* check_availability returns None after logging (lines 122, 127, 131, 134, 137)
ReturnNone(why) ==
    /\ data' = None
    /\ outcome' = why
    /\ pc' = "check_done"

\* lines 223, 77-79 and setup_driver (53-73): the session is created when the
\* slot is empty; webdriver.Chrome may fail, and so may the script run on the
\* new session, after self.driver has been assigned
setup_driver ==
    /\ pc = "run_check"
    /\ \/ /\ driver # None
          /\ pc' = "navigate"
          /\ UNCHANGED <<driver, live, data, outcome>>
       \/ /\ driver = None
          /\ \/ /\ ReturnNone("setup_failed")
                /\ UNCHANGED <<driver, live>>
             \/ /\ driver' = Session
                /\ live' = live + 1
                /\ ReturnNone("setup_script_failed")
             \/ /\ driver' = Session
                /\ live' = live + 1
                /\ pc' = "navigate"
                /\ UNCHANGED <<data, outcome>>
    /\ UNCHANGED <<last_response, availability_info, sends, before, prev,
                   exit_cause, send_result>>

\* lines 83-91: the two page loads, either of which may raise
navigate ==
    /\ pc = "navigate"
    /\ \/ /\ pc' = "fetch"
          /\ UNCHANGED <<data, outcome>>
       \/ \E why \in CheckErrors : ReturnNone(why)
    /\ UNCHANGED <<driver, live, last_response, availability_info, sends, before,
                   prev, exit_cause, send_result>>

\* lines 93-137: the in-page fetch and the inspection of its result
fetch ==
    /\ pc = "fetch"
    /\ \/ \E why \in CheckErrors \cup {"js_error", "non_dict"} : ReturnNone(why)
       \/ \E result \in LoopResponses :
            /\ data' = result
            /\ outcome' = "data"
            /\ pc' = "check_done"
    /\ UNCHANGED <<driver, live, last_response, availability_info, sends, before,
                   prev, exit_cause, send_result>>

\* a run_check that quits the session before it parses and compares
run_check_return_teardown_first ==
    /\ pc = "check_done"
    /\ pc' = IF Falsy(data) THEN "cleanup" ELSE "parse"
    /\ driver' = None
    /\ live' = 0
    /\ UNCHANGED <<last_response, data, availability_info, sends, outcome, before,
                   prev, exit_cause, send_result>>

\* a run_check that parses whatever check_availability returned
run_check_return_always_parse ==
    /\ pc = "check_done"
    /\ pc' = "parse"
    /\ UNCHANGED <<driver, live, last_response, data, availability_info, sends,
                   outcome, before, prev, exit_cause, send_result>>

\* lines 224-225: if not data: return
run_check_return ==
    /\ pc = "check_done"
    /\ pc' = IF Falsy(data) THEN "cleanup" ELSE "parse"
    /\ UNCHANGED <<driver, live, last_response, data, availability_info, sends,
                   outcome, before, prev, exit_cause, send_result>>

\* line 227
parse ==
    /\ pc = "parse"
    /\ \E now \in Clock : availability_info' = parse_availability(data, now)
    /\ pc' = "compare"
    /\ UNCHANGED <<driver, live, last_response, data, sends, outcome, before, prev,
                   exit_cause, send_result>>

\* print (lines 242, 245) returns, or raises out of run_check and out of the
\* while loop, which has no except clause for it
print_returns(ok) ==
    /\ pc' = IF ok THEN "cleanup" ELSE "final_cleanup"
    /\ exit_cause' = IF ok THEN exit_cause ELSE "exception"

\* a comparison that never finds the snapshots equal
compare_always_differs ==
    /\ pc = "compare"
    /\ last_response' = availability_info
    /\ IF get_has_availability(availability_info)
       THEN pc' = "send_email" /\ UNCHANGED exit_cause
       ELSE \E ok \in BOOLEAN : print_returns(ok)
    /\ UNCHANGED <<driver, live, data, availability_info, sends, outcome, before,
                   prev, send_result>>

\* a comparison that stores nothing
compare_no_store ==
    /\ pc = "compare"
    /\ IF last_response # availability_info
       THEN IF get_has_availability(availability_info)
            THEN pc' = "send_email" /\ UNCHANGED exit_cause
            ELSE \E ok \in BOOLEAN : print_returns(ok)
       ELSE pc' = "cleanup" /\ UNCHANGED exit_cause
    /\ UNCHANGED <<driver, live, last_response, data, availability_info, sends,
                   outcome, before, prev, send_result>>

\* a comparison that notifies on every change
compare_always_notify ==
    /\ pc = "compare"
    /\ IF last_response # availability_info
       THEN /\ last_response' = availability_info
            /\ pc' = "send_email"
       ELSE /\ pc' = "cleanup"
            /\ UNCHANGED last_response
    /\ UNCHANGED <<driver, live, data, availability_info, sends, outcome, before,
                   prev, exit_cause, send_result>>

\* lines 230-234 and 243-247: the comparison with last_response, the store of
\* the new value, and the branch on has_availability
compare ==
    /\ pc = "compare"
    /\ IF last_response # availability_info
       THEN /\ last_response' = availability_info
            /\ IF get_has_availability(availability_info)
               THEN pc' = "send_email" /\ UNCHANGED exit_cause
               ELSE \E ok \in BOOLEAN : print_returns(ok)
       ELSE /\ pc' = "cleanup"
            /\ UNCHANGED <<last_response, exit_cause>>
    /\ UNCHANGED <<driver, live, data, availability_info, sends, outcome, before,
                   prev, send_result>>

\* a send_email that tries a second time when delivery fails
send_email_retry ==
    /\ pc = "send_email"
    /\ \E delivered \in {"True", "False"} :
         /\ send_result' = delivered
         /\ sends' = IF delivered = "False" THEN sends + 2 ELSE sends + 1
    /\ \E ok \in BOOLEAN : print_returns(ok)
    /\ UNCHANGED <<driver, live, last_response, data, availability_info, outcome,
                   before, prev>>

\* lines 235-242 with send_email (173-199): one delivery attempt that returns
\* True or False, then the print of the body
send_email ==
    /\ pc = "send_email"
    /\ sends' = sends + 1
    /\ \E delivered \in {"True", "False"} : send_result' = delivered
    /\ \E ok \in BOOLEAN : print_returns(ok)
    /\ UNCHANGED <<driver, live, last_response, data, availability_info, outcome,
                   before, prev>>

\* cleanup (lines 268-273): quit() returns (quit_ok) or raises; when it raises
\* the slot keeps the session, which may or may not have ended
cleanup(quit_ok) ==
    IF driver = None
    THEN UNCHANGED <<driver, live>>
    ELSE IF quit_ok
         THEN /\ driver' = None
              /\ live' = IF live > 0 THEN live - 1 ELSE 0
         ELSE /\ driver' = driver
              /\ live' \in {live, IF live > 0 THEN live - 1 ELSE 0}

\* line 259: the cleanup after each check; an exception of quit() leaves the loop
cycle_cleanup ==
    /\ pc = "cleanup"
    /\ \E quit_ok \in BOOLEAN :
         /\ cleanup(quit_ok)
         /\ pc' = IF driver = None \/ quit_ok THEN "sleep" ELSE "final_cleanup"
         /\ exit_cause' = IF driver = None \/ quit_ok THEN exit_cause ELSE "exception"
    /\ UNCHANGED <<last_response, data, availability_info, sends, outcome, before,
                   prev, send_result>>

\* lines 260-261 and the return to line 258: the sleep ends and the next cycle
\* begins with fresh locals
sleep ==
    /\ pc = "sleep"
    /\ pc' = "run_check"
    /\ data' = None
    /\ availability_info' = None
    /\ sends' = 0
    /\ send_result' = "none"
    /\ outcome' = "pending"
    /\ before' = last_response
    /\ prev' = availability_info
    /\ UNCHANGED <<driver, live, last_response, exit_cause>>

\* an interrupt handler that swallows a Ctrl+C arriving during the sleep and
\* goes on with the next cycle
KeyboardInterrupt_resumes_after_sleep ==
    /\ pc \in LoopPcs
    /\ pc' = IF pc = "sleep" THEN "run_check" ELSE "final_cleanup"
    /\ exit_cause' = "interrupt"
    /\ UNCHANGED <<driver, live, last_response, data, availability_info, sends,
                   outcome, before, prev, send_result>>

\* lines 263-264: Ctrl+C anywhere inside the loop; no except clause below the
\* loop stops a KeyboardInterrupt, so control goes to the finally of line 265
KeyboardInterrupt ==
    /\ pc \in LoopPcs
    /\ pc' = "final_cleanup"
    /\ exit_cause' = "interrupt"
    /\ UNCHANGED <<driver, live, last_response, data, availability_info, sends,
                   outcome, before, prev, send_result>>

\* lines 265-266: the finally of start_monitoring
final_cleanup ==
    /\ pc = "final_cleanup"
    /\ \E quit_ok \in BOOLEAN : cleanup(quit_ok)
    /\ pc' = "main_cleanup"
    /\ UNCHANGED <<last_response, data, availability_info, sends, outcome, before,
                   prev, exit_cause, send_result>>

\* lines 298-301: the finally of main, after which the process ends
main_cleanup ==
    /\ pc = "main_cleanup"
    /\ \E quit_ok \in BOOLEAN : cleanup(quit_ok)
    /\ pc' = "stopped"
    /\ UNCHANGED <<last_response, data, availability_info, sends, outcome, before,
                   prev, exit_cause, send_result>>

Next ==
    \/ setup_driver
    \/ navigate
    \/ fetch
    \/ run_check_return
    \/ parse
    \/ compare
    \/ send_email
    \/ cycle_cleanup
    \/ sleep
    \/ KeyboardInterrupt
    \/ final_cleanup
    \/ main_cleanup

Spec == Init /\ [][Next]_vars

(***************************************************************************)
(* The monitor with no external interrupt.  The program is one thread that *)
(* runs whenever it can and every call it makes returns or fails, so a     *)
(* step that is possible is eventually taken.                              *)
(***************************************************************************)
NextLive ==
    \/ setup_driver
    \/ navigate
    \/ fetch
    \/ run_check_return
    \/ parse
    \/ compare
    \/ send_email
    \/ cycle_cleanup
    \/ sleep
    \/ final_cleanup
    \/ main_cleanup

SpecLive == Init /\ [][NextLive]_vars /\ WF_vars(NextLive)

(***************************************************************************)
(* parse_availability on its own: every response of ParseResponses is      *)
(* handed to line 227.                                                     *)
(***************************************************************************)
InitParse ==
    /\ pc = "parse"
    /\ data \in ParseResponses
    /\ driver = None
    /\ live = 0
    /\ last_response = None
    /\ availability_info = None
    /\ sends = 0
    /\ outcome = "data"
    /\ before = None
    /\ prev = None
    /\ exit_cause = "none"
    /\ send_result = "none"

NextParse == parse

SpecParse == InitParse /\ [][NextParse]_vars

(***************************************************************************)
(* Properties.                                                             *)
(***************************************************************************)
\* parse_availability returned a snapshot (not None, not the error record)
IsSnapshot(info) == "has_availability" \in DOMAIN info

\* parse_availability returned its error-tagged result
IsErrorRecord(info) == "error" \in DOMAIN info

\* run_check has returned normally in the current cycle
CycleReturned == pc \in {"cleanup", "sleep"}

\* run_check has returned normally after parsing a response
CycleParsed == CycleReturned /\ outcome = "data" /\ availability_info # None

\* the ways check_availability returns None
NoDataOutcomes == CheckErrors \cup {"js_error", "non_dict", "setup_failed",
                                    "setup_script_failed"}

\* C1: when two consecutive successful checks return the same stores with the
\* same per-part statuses and some part is 'available', the second of the two
\* cycles does not call send_email.
C1_NotifyOncePerTransition ==
    (/\ CycleParsed
     /\ IsSnapshot(availability_info)
     /\ IsSnapshot(prev)
     /\ prev.stores = availability_info.stores
     /\ availability_info.has_availability)
    => sends = 0

\* C2: when the snapshot parsed in a cycle equals last_response, run_check
\* calls send_email zero times and leaves last_response as it was.
C2_EqualSnapshotNoSend ==
    (CycleParsed /\ availability_info = before)
    => (sends = 0 /\ last_response = before)

\* C2 witness: a cycle has parsed a snapshot with an available part that equals
\* the stored one, and run_check has returned.
C2_Witness ==
    /\ pc = "cleanup"
    /\ outcome = "data"
    /\ IsSnapshot(availability_info)
    /\ availability_info.has_availability
    /\ availability_info = before
    /\ sends = 0

\* C3: when a cycle's check succeeds and the parsed snapshot has
\* has_availability true and differs from last_response, send_email is called
\* exactly once in the cycle and last_response becomes the new snapshot.
C3_ChangedAvailableOneSend ==
    (/\ CycleParsed
     /\ get_has_availability(availability_info)
     /\ availability_info # before)
    => (sends = 1 /\ last_response = availability_info)

\* C3 witness: a cycle that found an available part, with a snapshot different
\* from a stored earlier snapshot, has sent once and stored the new snapshot.
C3_Witness ==
    /\ pc = "cleanup"
    /\ outcome = "data"
    /\ get_has_availability(availability_info)
    /\ IsSnapshot(before)
    /\ availability_info # before
    /\ sends = 1
    /\ last_response = availability_info

\* C4: in a cycle where check_availability returns None, last_response stays
\* what it was when the cycle began and send_email is not called.
C4_NoDataLeavesLastResponse ==
    outcome \in NoDataOutcomes => (last_response = before /\ sends = 0)

\* C4 witness: a cycle whose check returned None has reached its sleep while
\* last_response still holds a snapshot of an earlier cycle.
C4_Witness ==
    /\ pc = "sleep"
    /\ outcome \in NoDataOutcomes
    /\ IsSnapshot(last_response)
    /\ last_response = before

C6_LoopExitsOnlyOnInterrupt ==
    pc \in {"final_cleanup", "main_cleanup", "stopped"} => exit_cause = "interrupt"

\* C7: whenever the loop sleeps, and whenever start_monitoring has been left,
\* the driver slot is empty and no session is live.
C7_TeardownAfterEveryCycle ==
    pc \in {"sleep", "main_cleanup"} => (driver = None /\ live = 0)

\* C8: when the process stops, the driver slot is empty and every session
\* that was created has been quit.
C8_NoSessionAtProcessEnd ==
    pc = "stopped" => (driver = None /\ live = 0)

\* the stores list of a response, [] when a key of the path is missing or a
\* level is not an object
ResponseStores(d) ==
    IF /\ "body" \in DOMAIN d
       /\ "content" \in DOMAIN d.body
       /\ "pickupMessage" \in DOMAIN d.body.content
       /\ "stores" \in DOMAIN d.body.content.pickupMessage
    THEN d.body.content.pickupMessage.stores
    ELSE <<>>

\* every object parse_availability calls .get on is a dict
Parsable(d) ==
    /\ "body" \in DOMAIN d => IsDict(d.body)
    /\ ("body" \in DOMAIN d /\ "content" \in DOMAIN d.body) => IsDict(d.body.content)
    /\ ("body" \in DOMAIN d /\ "content" \in DOMAIN d.body
        /\ "pickupMessage" \in DOMAIN d.body.content)
       => IsDict(d.body.content.pickupMessage)
    /\ \A i \in 1 .. Len(ResponseStores(d)) :
         LET store == ResponseStores(d)[i] IN
         /\ IsDict(store)
         /\ "partsAvailability" \in DOMAIN store =>
              \A p \in DOMAIN store.partsAvailability : IsDict(store.partsAvailability[p])

\* the part-number -> part entry mapping of a store of the response
RawParts(store) ==
    IF IsDict(store) /\ "partsAvailability" \in DOMAIN store
    THEN store.partsAvailability
    ELSE EmptyDict

\* some part of some store of the response has pickupDisplay 'available'
SomePartAvailable(d) ==
    \E i \in 1 .. Len(ResponseStores(d)) :
        \E p \in DOMAIN RawParts(ResponseStores(d)[i]) :
            LET part_info == RawParts(ResponseStores(d)[i])[p] IN
            /\ "pickupDisplay" \in DOMAIN part_info
            /\ part_info.pickupDisplay = "available"

\* the snapshot lists the stores of the response, one entry per store, in
\* order, each with the store's part-number -> status mapping
StoresMirrorResponse(d, info) ==
    /\ Len(info.stores) = Len(ResponseStores(d))
    /\ \A i \in 1 .. Len(ResponseStores(d)) :
         LET store == ResponseStores(d)[i]
             entry == info.stores[i]
         IN  /\ entry.storeName =
                    (IF "storeName" \in DOMAIN store THEN store.storeName ELSE "Unknown")
             /\ entry.storeNumber =
                    (IF "storeNumber" \in DOMAIN store THEN store.storeNumber ELSE "Unknown")
             /\ DOMAIN entry.partsAvailability = DOMAIN RawParts(store)
             /\ \A p \in DOMAIN RawParts(store) :
                  entry.partsAvailability[p] =
                      (IF "pickupDisplay" \in DOMAIN RawParts(store)[p]
                       THEN RawParts(store)[p].pickupDisplay
                       ELSE "Unknown")

\* what C9 says of a response d and the result info of parsing it
SnapshotMatches(d, info) ==
    /\ IsSnapshot(info)
    /\ info.has_availability = SomePartAvailable(d)
    /\ StoresMirrorResponse(d, info)

C10_UnavailableStoredNotSent ==
    /\ (/\ CycleParsed
        /\ availability_info # before
        /\ ~get_has_availability(availability_info))
       => (last_response = availability_info /\ sends = 0)
    /\ sends > 0 => get_has_availability(availability_info)

\* C10 witness: after a snapshot with an available part, a cycle has parsed a
\* snapshot without one, stored it, and sent nothing.
C10_Witness ==
    /\ pc = "cleanup"
    /\ outcome = "data"
    /\ IsSnapshot(before)
    /\ before.has_availability
    /\ IsSnapshot(availability_info)
    /\ ~availability_info.has_availability
    /\ last_response = availability_info
    /\ sends = 0

\* C11: with no external interrupt, and every call returning or failing, the
\* loop runs for ever: the cycle's sleep is reached again and again and a
\* further check is started again and again.
C11_LoopRunsForever ==
    /\ []<>(pc = "sleep")
    /\ []<>(pc = "run_check")

\* C12: when send_email returns False, that was the only delivery attempt of
\* the cycle, last_response holds the new snapshot, and unless the loop has
\* been left the cycle is at its teardown or its sleep, where the session is
\* gone.
C12_SendFailureIgnored ==
    send_result = "False" =>
        /\ sends = 1
        /\ last_response = availability_info
        /\ get_has_availability(last_response)
        /\ exit_cause = "none" => pc \in {"cleanup", "sleep"}
        /\ pc = "sleep" => (driver = None /\ live = 0)

\* C12 witness: a cycle whose one delivery attempt failed has stored the new
\* snapshot, torn the session down and reached its sleep.
C12_Witness ==
    /\ pc = "sleep"
    /\ send_result = "False"
    /\ sends = 1
    /\ last_response = availability_info
    /\ driver = None

\* C13 as stated: the session is torn down before the snapshot is compared
\* and before any email is sent, so no session is live at the comparison or
\* at the call of send_email.
C13_TeardownBeforeCompare ==
    pc \in {"compare", "send_email"} => (driver = None /\ live = 0)

\* C13 as amended: the session of the cycle is live while the response is
\* parsed, while the snapshot is compared with last_response and while
\* send_email is called; it is torn down only afterwards, by the cleanup that
\* follows run_check, and is gone at the sleep.
C13_CompareBeforeTeardown ==
    /\ (\/ pc \in {"parse", "compare", "send_email"}
        \/ (pc = "cleanup" /\ outcome = "data" /\ ~Falsy(data)))
       => (driver = Session /\ live = 1)
    /\ pc = "sleep" => (driver = None /\ live = 0)

\* C13 witness: send_email has been called and run_check has returned, and
\* the session is still live in the slot.
C13_Witness ==
    /\ pc = "cleanup"
    /\ sends = 1
    /\ driver = Session
    /\ live = 1

\* C14: at most one session is live at any time and none is leaked: a live
\* session is the one held in the slot, each cycle starts with an empty slot
\* and nothing live, no session is live during the sleep, and a session whose
\* post-construction script failed is held in the slot until the cycle's
\* cleanup, which quits it (interrupted cycles aside).
C14_OneSessionNoneLeaked ==
    /\ live <= 1
    /\ live > 0 => driver = Session
    /\ pc \in {"run_check", "sleep"} => (driver = None /\ live = 0)
    /\ (outcome = "setup_script_failed" /\ pc \in {"check_done", "cleanup"})
       => (driver = Session /\ live = 1)
    /\ (outcome = "setup_script_failed" /\ pc \notin {"check_done", "cleanup"}
        /\ exit_cause # "interrupt")
       => (driver = None /\ live = 0)

\* C15: an interrupt that arrives during the sleep takes the program out of
\* the loop, and once the loop has been left on an interrupt no check is
\* started, no session is created, send_email is not called and last_response
\* does not change.
C15_InterruptInSleepEndsLoop ==
    [][/\ (pc = "sleep" /\ exit_cause' = "interrupt")
          => /\ pc' = "final_cleanup"
             /\ last_response' = last_response
             /\ sends' = sends
             /\ driver' = driver
             /\ live' = live
       /\ exit_cause = "interrupt"
          => /\ pc' \notin LoopPcs
             /\ last_response' = last_response
             /\ sends' = sends
             /\ outcome' = outcome
             /\ live' <= live
             /\ exit_cause' = "interrupt"]_vars

\* C15 witness: the loop has just been left on an interrupt that arrived in
\* the sleep of a cycle that had stored a snapshot and torn its session down.
C15_Witness ==
    /\ pc = "final_cleanup"
    /\ exit_cause = "interrupt"
    /\ outcome = "data"
    /\ IsSnapshot(availability_info)
    /\ last_response = availability_info
    /\ driver = None
    /\ live = 0

====
